---------------------------- MODULE Spec2Model ----------------------------
(***************************************************************************)
(* Bachpan Balance (src/v1_streamlit/app.py): a Streamlit script.  Every   *)
(* user interaction re-runs the whole script: it loads the child's profile *)
(* from its JSON file, applies the one button that was pressed, re-derives *)
(* the water target and the badges, and saves the profile again.  One      *)
(* action of this model is one such run.                                   *)
(*                                                                         *)
(* Representation.  A profile is a record; the day records, which the JSON *)
(* keeps under top-level ISO-date keys, are the function "days" from ISO   *)
(* keys to day records.  An ISO date string "YYYY-MM-DD" is the tuple      *)
(* <<y, m, d>>; None is <<>> for a date and NoneNum for a number.  A       *)
(* weight is kept in half kilograms (the widget's step is 0.5 kg).  A name *)
(* is a sequence of one-character strings.                                 *)
(***************************************************************************)
EXTENDS Integers, Sequences, FiniteSets, TLC

VARIABLES
    files,      \* bb_data/: file key -> <<>> (no file) or <<profile>>
    clock,      \* the caller's calendar date, as dt.date.today() returns it
    calc,       \* the water calculator's latest call: arguments and result
    xpLeft      \* the xp the model still lets the behaviour earn by logging

vars == <<files, clock, calc, xpLeft>>

---------------------------------------------------------------------------
(* Bounds of the model *)

\* xp grows without limit in the program; a behaviour may earn at most this
\* much xp by logging activities (what a run that presses "Mark day complete"
\* adds does not count)
MaxXp == 10
\* glasses drunk per day grow without limit; cut off here
MaxGlasses == 5
\* fruit items per day grow without limit; cut off here
MaxFruit == 2
\* number of calendar days the clock may advance from StartDate
MaxDays == 1
\* the calculator is called with ages 0..MaxAge
MaxAge == 20
\* the calculator is called with weights up to MaxWeight2 half kilograms
MaxWeight2 == 150
\* a completion is computed for streaks 0..MaxStreak
MaxStreak == 3
\* "Add fruit" is pressed up to MaxAdds times in a row on one day record
MaxAdds == 2
\* the hydration badge is computed for 0..MaxDrunk glasses drunk
MaxDrunk == 12
\* and for targets of 1..MaxTarget glasses
MaxTarget == 10

---------------------------------------------------------------------------
(* Calendar: dt.date, isoformat, fromisoformat, date subtraction *)

IsLeap(y) == (y % 4 = 0 /\ y % 100 # 0) \/ y % 400 = 0

DaysInMonth(y, m) ==
    IF m = 2 THEN (IF IsLeap(y) THEN 29 ELSE 28)
    ELSE IF m \in {4, 6, 9, 11} THEN 30 ELSE 31

RECURSIVE DaysBeforeMonth(_, _)
DaysBeforeMonth(y, m) ==
    IF m <= 1 THEN 0 ELSE DaysBeforeMonth(y, m - 1) + DaysInMonth(y, m - 1)

\* date.toordinal(): days since 0001-01-01, that day being 1
Ordinal(dte) ==
    LET y1 == dte.y - 1
    IN  y1 * 365 + (y1 \div 4) - (y1 \div 100) + (y1 \div 400)
        + DaysBeforeMonth(dte.y, dte.m) + dte.d

\* the calendar day after dte
NextDay(dte) ==
    IF dte.d < DaysInMonth(dte.y, dte.m) THEN [dte EXCEPT !.d = dte.d + 1]
    ELSE IF dte.m < 12 THEN [y |-> dte.y, m |-> dte.m + 1, d |-> 1]
    ELSE [y |-> dte.y + 1, m |-> 1, d |-> 1]

\* date.isoformat()
IsoFormat(dte) == <<dte.y, dte.m, dte.d>>

\* whether date.fromisoformat(s) returns (rather than raises)
IsoParses(s) ==
    /\ Len(s) = 3
    /\ s[1] \in 1..9999
    /\ s[2] \in 1..12
    /\ s[3] \in 1..DaysInMonth(s[1], s[2])

\* date.fromisoformat(s), for a string that parses
FromIso(s) == [y |-> s[1], m |-> s[2], d |-> s[3]]

\* the first date of the model's calendar window; it spans a month's end
StartDate == [y |-> 2025, m |-> 2, d |-> 1]

---------------------------------------------------------------------------
(* Storage: _user_file, DEFAULT_PROFILE, load_profile, save_profile *)

NoneNum == -1           \* Python's None in a numeric field
NoneDate == <<>>        \* Python's None in a date-string field

Whitespace == {" "}
AlnumLower == {"a", "l", "i", "0"}
AlnumUpper == {"A", "L", "I"}
Alnum == AlnumLower \cup AlnumUpper

\* str.lower() on one character
LowerChar(c) ==
    CASE c = "A" -> "a" [] c = "L" -> "l" [] c = "I" -> "i" [] OTHER -> c

RECURSIVE LStrip(_)
LStrip(s) ==
    IF s # <<>> /\ Head(s) \in Whitespace THEN LStrip(Tail(s)) ELSE s

RECURSIVE RStrip(_)
RStrip(s) ==
    IF s # <<>> /\ s[Len(s)] \in Whitespace
    THEN RStrip(SubSeq(s, 1, Len(s) - 1)) ELSE s

\* str.strip()
Strip(s) == RStrip(LStrip(s))

\* the file name _user_file gives a child, without directory and ".json"
UserFile(name) ==
    LET kept == SelectSeq(Strip(name), LAMBDA c : c \in Alnum \/ c \in {"_", "-"})
        safe == IF kept = <<>> THEN <<"g", "u", "e", "s", "t">> ELSE kept
    IN  [i \in 1..Len(safe) |-> LowerChar(safe[i])]

\* the names typed into the "Child's Name" box
Names == { <<" ">>, <<"A", "l", "i">> }

FileKeys == { UserFile(n) : n \in Names }

DEFAULT_PROFILE ==
    [ name |-> <<>>, gender |-> "", age |-> NoneNum, weight |-> NoneNum,
      height |-> NoneNum, created |-> NoneDate, streak |-> 0,
      last_day |-> NoneDate, xp |-> 0, badges |-> <<>>, days |-> <<>> ]

\* A file is <<>> when it does not exist and <<profile>> when its text is the
\* JSON save_profile wrote; any other tuple is text json.load rejects.
GARBLED == <<"{", "x">>

\* json.load(f) returns
JsonLoads(f) == Len(f) = 1

\* load_profile(name) that leaves the default profile without a name when
\* the file cannot be decoded
load_profileNameless(fs, name, today) ==
    IF fs[UserFile(name)] # <<>> /\ JsonLoads(fs[UserFile(name)])
    THEN fs[UserFile(name)][1]
    ELSE IF fs[UserFile(name)] # <<>>
    THEN DEFAULT_PROFILE
    ELSE [DEFAULT_PROFILE EXCEPT !.name = name, !.created = IsoFormat(today)]

\* load_profile(name), read at date today: the stored profile, or the default
\* one when there is no file or json.load raises
load_profile(fs, name, today) ==
    IF fs[UserFile(name)] # <<>> /\ JsonLoads(fs[UserFile(name)])
    THEN fs[UserFile(name)][1]
    ELSE [DEFAULT_PROFILE EXCEPT !.name = name, !.created = IsoFormat(today)]

\* the files after save_profile(profile)
save_profile(fs, profile) ==
    [fs EXCEPT ![UserFile(profile.name)] = <<profile>>]

---------------------------------------------------------------------------
(* Content helpers and utility logic *)

BADGE_LADDER == <<"Bronze", "Silver", "Gold", "Legend">>

\* THRESHOLDS["hydration"], each threshold as the fraction <<num, den>>
THRESHOLDS == << <<1, 4>>, <<1, 2>>, <<4, 5>>, <<1, 1>> >>

Min(a, b) == IF a <= b THEN a ELSE b
Max(a, b) == IF a >= b THEN a ELSE b

\* math.ceil(a / b) for a >= 0, b > 0
CeilDiv(a, b) == (a + b - 1) \div b

\* int(round(h / 2)) for an integer h >= 0: Python rounds a half to even
RoundHalf(h) ==
    LET q == h \div 2
    IN  IF h % 2 = 0 THEN q ELSE IF q % 2 = 0 THEN q ELSE q + 1

\* str.lower() on the gender strings the model uses
GenderLower(g) ==
    CASE g = "Girl" -> "girl" [] g = "GIRL" -> "girl" [] g = "girl" -> "girl"
      [] g = "Boy" -> "boy" [] g = "Other" -> "other" [] OTHER -> g

\* the age/gender minimum with gender compared as typed, without lower()
MinMlCaseSensitive(age, gender) ==
    IF age <= 3 THEN 1000
    ELSE IF 4 <= age /\ age <= 8 THEN 1200
    ELSE IF 9 <= age /\ age <= 13
         THEN (IF gender = "girl" THEN 1400 ELSE 1600)
    ELSE IF 14 <= age /\ age <= 18
         THEN (IF gender = "girl" THEN 1800 ELSE 2400)
    ELSE 2000

\* the age/gender minimum of calculate_water_intake, in ml
MinMl(age, gender) ==
    IF age <= 3 THEN 1000
    ELSE IF 4 <= age /\ age <= 8 THEN 1200
    ELSE IF 9 <= age /\ age <= 13
         THEN (IF GenderLower(gender) = "girl" THEN 1400 ELSE 1600)
    ELSE IF 14 <= age /\ age <= 18
         THEN (IF GenderLower(gender) = "girl" THEN 1800 ELSE 2400)
    ELSE 2000

\* calculate_water_intake(age, gender, weight, height); weight2 is the weight
\* in half kilograms, NoneNum or 0 when it is None or zero.  Millilitres are
\* held doubled (ml2) while they may end in .5
calculate_water_intake(age, gender, weight2) ==
    LET w2       == IF weight2 = NoneNum \/ weight2 = 0 THEN 0 ELSE weight2
        base_ml2 == IF w2 > 0 THEN w2 * 35 ELSE 2 * 1200
        water_ml2 == Max(base_ml2, 2 * MinMl(age, gender))
        glass_ml == 250
    IN  [ ml |-> RoundHalf(water_ml2),
          glasses |-> CeilDiv(water_ml2, 2 * glass_ml),
          glass_ml |-> glass_ml ]

\* whether the fraction a is >= the fraction b
FracGeq(a, b) == a[1] * b[2] >= b[1] * a[2]

\* award_level comparing with > where the code has >=
award_levelStrict(progress_ratio) ==
    IF ~FracGeq(THRESHOLDS[4], progress_ratio) THEN BADGE_LADDER[4]
    ELSE IF ~FracGeq(THRESHOLDS[3], progress_ratio) THEN BADGE_LADDER[3]
    ELSE IF ~FracGeq(THRESHOLDS[2], progress_ratio) THEN BADGE_LADDER[2]
    ELSE IF ~FracGeq(THRESHOLDS[1], progress_ratio) THEN BADGE_LADDER[1]
    ELSE ""

\* award_level(progress_ratio), the ratio given as the fraction <<num, den>>
award_level(progress_ratio) ==
    IF FracGeq(progress_ratio, THRESHOLDS[4]) THEN BADGE_LADDER[4]
    ELSE IF FracGeq(progress_ratio, THRESHOLDS[3]) THEN BADGE_LADDER[3]
    ELSE IF FracGeq(progress_ratio, THRESHOLDS[2]) THEN BADGE_LADDER[2]
    ELSE IF FracGeq(progress_ratio, THRESHOLDS[1]) THEN BADGE_LADDER[1]
    ELSE ""

xp_for(action) ==
    CASE action = "water_glass" -> 5
      [] action = "fruit" -> 8
      [] action = "protein" -> 8
      [] action = "school" -> 10
      [] action = "outdoor" -> 10
      [] action = "indoor" -> 8
      [] action = "exam_5min" -> 2
      [] action = "screen_create_10min" -> 4
      [] action = "day_complete" -> 30
      [] OTHER -> 1

\* BADGE_LADDER[min(3, count - 1)] (Python indexes from 0)
LadderAt(count) == BADGE_LADDER[Min(3, count - 1) + 1]

\* d[k] = v on a Python dict held as a function
Put(d, k, v) == (k :> v) @@ d

---------------------------------------------------------------------------
(* The script, section by section.  A section takes and returns the pair   *)
(* s = [profile, day]: day is the dict the script holds in "day", which is *)
(* also profile[TODAY].                                                    *)

\* Python's "x or default" on a numeric field
OrNum(x, default) == IF x = NoneNum \/ x = 0 THEN default ELSE x

GENDERS == {"Boy", "Girl", "Other"}

\* profile.update({...}) with the four sidebar values
UpdateBasics(profile, gender, age, weight2, height2) ==
    [profile EXCEPT !.gender = gender, !.age = age,
                    !.weight = weight2, !.height = height2]

\* the record a date gets when the profile holds none for it
NewDay(water_rec, parent_limit) ==
    [ water |-> [glasses |-> 0, target_glasses |-> water_rec.glasses,
                 target_ml |-> water_rec.ml],
      fruit |-> [items |-> <<>>],
      protein |-> [items |-> {}],
      school_work |-> FALSE,
      outdoor |-> {},
      indoor |-> {},
      exam_prep_min |-> 0,
      screen |-> [create |-> 0, fun |-> 0, limit |-> parent_limit],
      completed |-> FALSE ]

\* "Prepare today's record" that keeps the targets of an existing record
PrepareDaySticky(profile, TODAY, water_rec, parent_limit) ==
    IF TODAY \in DOMAIN profile.days
    THEN profile.days[TODAY]
    ELSE NewDay(water_rec, parent_limit)

\* "Prepare today's record" that also clears the completed flag of the
\* existing record
PrepareDayResets(profile, TODAY, water_rec, parent_limit) ==
    IF TODAY \in DOMAIN profile.days
    THEN [profile.days[TODAY] EXCEPT
              !.water.target_glasses = water_rec.glasses,
              !.water.target_ml = water_rec.ml,
              !.completed = FALSE]
    ELSE NewDay(water_rec, parent_limit)

\* "Prepare today's record": the existing record with today's targets
\* overwritten, or a new one
PrepareDay(profile, TODAY, water_rec, parent_limit) ==
    IF TODAY \in DOMAIN profile.days
    THEN [profile.days[TODAY] EXCEPT
              !.water.target_glasses = water_rec.glasses,
              !.water.target_ml = water_rec.ml]
    ELSE NewDay(water_rec, parent_limit)

\* min(1.0, glasses / max(1, target_glasses)) as a fraction
Progress(day) ==
    LET den == Max(1, day.water.target_glasses)
    IN  <<Min(den, day.water.glasses), den>>

\* "I drank 1 glass" that gives the points but counts no glass beyond the
\* target
HydrationSectionCapped(s, pressed) ==
    LET counts == pressed /\ s.day.water.glasses < s.day.water.target_glasses
        day == IF counts
               THEN [s.day EXCEPT !.water.glasses = s.day.water.glasses + 1]
               ELSE s.day
        xp  == IF pressed THEN s.profile.xp + xp_for("water_glass")
               ELSE s.profile.xp
        level == award_level(Progress(day))
        badges == IF level # "" THEN Put(s.profile.badges, "hydration", level)
                  ELSE s.profile.badges
    IN  [profile |-> [s.profile EXCEPT !.xp = xp, !.badges = badges],
         day |-> day]

\* "I drank 1 glass" and the hydration badge
HydrationSection(s, pressed) ==
    LET day == IF pressed
               THEN [s.day EXCEPT !.water.glasses = s.day.water.glasses + 1]
               ELSE s.day
        xp  == IF pressed THEN s.profile.xp + xp_for("water_glass")
               ELSE s.profile.xp
        level == award_level(Progress(day))
        badges == IF level # "" THEN Put(s.profile.badges, "hydration", level)
                  ELSE s.profile.badges
    IN  [profile |-> [s.profile EXCEPT !.xp = xp, !.badges = badges],
         day |-> day]

\* options of the fruit selectbox: a catalogue fruit, and "Other"
APPLE == <<"A", "p", "p", "l", "e">>
OTHER_CHOICE == <<"O", "t", "h", "e", "r">>

\* "Add fruit" that skips a fruit already in today's list
FruitSectionNoDuplicates(s, pressed, fruit_choice, other_fruit) ==
    LET item == IF fruit_choice = OTHER_CHOICE THEN Strip(other_fruit)
                ELSE fruit_choice
        add == /\ pressed
               /\ item # <<>>
               /\ \A i \in DOMAIN s.day.fruit.items : s.day.fruit.items[i] # item
        day == IF add
               THEN [s.day EXCEPT !.fruit.items = Append(s.day.fruit.items, item)]
               ELSE s.day
        xp  == IF add THEN s.profile.xp + xp_for("fruit") ELSE s.profile.xp
        fruit_count == Len(day.fruit.items)
        badges == IF fruit_count >= 1
                  THEN Put(s.profile.badges, "fruit", LadderAt(fruit_count))
                  ELSE s.profile.badges
    IN  [profile |-> [s.profile EXCEPT !.xp = xp, !.badges = badges],
         day |-> day]

\* "Add fruit" and the fruit badge
FruitSection(s, pressed, fruit_choice, other_fruit) ==
    LET item == IF fruit_choice = OTHER_CHOICE THEN Strip(other_fruit)
                ELSE fruit_choice
        add == pressed /\ item # <<>>
        day == IF add
               THEN [s.day EXCEPT !.fruit.items = Append(s.day.fruit.items, item)]
               ELSE s.day
        xp  == IF add THEN s.profile.xp + xp_for("fruit") ELSE s.profile.xp
        fruit_count == Len(day.fruit.items)
        badges == IF fruit_count >= 1
                  THEN Put(s.profile.badges, "fruit", LadderAt(fruit_count))
                  ELSE s.profile.badges
    IN  [profile |-> [s.profile EXCEPT !.xp = xp, !.badges = badges],
         day |-> day]

\* "Save protein" and the protein badge
ProteinSection(s, pressed, protein_sel) ==
    LET day == IF pressed
               THEN [s.day EXCEPT !.protein.items =
                                      s.day.protein.items \cup protein_sel]
               ELSE s.day
        xp  == IF pressed /\ protein_sel # {}
               THEN s.profile.xp + xp_for("protein") ELSE s.profile.xp
        badges == IF day.protein.items # {}
                  THEN Put(s.profile.badges, "protein",
                           LadderAt(Cardinality(day.protein.items)))
                  ELSE s.profile.badges
    IN  [profile |-> [s.profile EXCEPT !.xp = xp, !.badges = badges],
         day |-> day]

\* the school-work checkbox awarding on every run that finds it checked
SchoolSectionEveryRun(s, school_done) ==
    LET xp == IF school_done
              THEN s.profile.xp + xp_for("school") ELSE s.profile.xp
    IN  [profile |-> [s.profile EXCEPT !.xp = xp],
         day |-> [s.day EXCEPT !.school_work = school_done]]

\* the school-work checkbox
SchoolSection(s, school_done) ==
    LET xp == IF school_done /\ ~s.day.school_work
              THEN s.profile.xp + xp_for("school") ELSE s.profile.xp
    IN  [profile |-> [s.profile EXCEPT !.xp = xp],
         day |-> [s.day EXCEPT !.school_work = school_done]]

\* "Save outdoor play"
OutdoorSection(s, pressed, outdoor_sel) ==
    IF pressed
    THEN [profile |-> [s.profile EXCEPT !.xp =
                          IF outdoor_sel # {} THEN @ + xp_for("outdoor") ELSE @],
          day |-> [s.day EXCEPT !.outdoor = outdoor_sel]]
    ELSE s

\* "Save indoor play"
IndoorSection(s, pressed, indoor_sel) ==
    IF pressed
    THEN [profile |-> [s.profile EXCEPT !.xp =
                          IF indoor_sel # {} THEN @ + xp_for("indoor") ELSE @],
          day |-> [s.day EXCEPT !.indoor = indoor_sel]]
    ELSE s

\* "Save study time" awarding the signed difference to the stored minutes: a
\* lower value takes points back
ExamSectionClawback(s, pressed, exam_min) ==
    IF pressed
    THEN [profile |-> [s.profile EXCEPT !.xp =
                          @ + xp_for("exam_5min")
                              * ((exam_min - s.day.exam_prep_min) \div 5)],
          day |-> [s.day EXCEPT !.exam_prep_min = exam_min]]
    ELSE s

\* "Save study time"
ExamSection(s, pressed, exam_min) ==
    IF pressed
    THEN [profile |-> [s.profile EXCEPT !.xp =
                          @ + xp_for("exam_5min") * (exam_min \div 5)],
          day |-> [s.day EXCEPT !.exam_prep_min = exam_min]]
    ELSE s

\* "Save screen time"
ScreenSection(s, pressed, create_min, fun_min, parent_limit) ==
    IF pressed
    THEN [profile |-> [s.profile EXCEPT !.xp =
                          @ + xp_for("screen_create_10min") * (create_min \div 10)],
          day |-> [s.day EXCEPT !.screen =
                      [create |-> create_min, fun |-> fun_min,
                       limit |-> parent_limit]]]
    ELSE s

\* other_hits of the day-complete condition
OtherHits(day) ==
      (IF day.fruit.items # <<>> THEN 1 ELSE 0)
    + (IF day.protein.items # {} THEN 1 ELSE 0)
    + (IF day.school_work THEN 1 ELSE 0)
    + (IF day.outdoor # {} THEN 1 ELSE 0)
    + (IF day.indoor # {} THEN 1 ELSE 0)
    + (IF day.exam_prep_min >= 10 THEN 1 ELSE 0)

\* allow_complete asking for one other item only
AllowCompleteOneHit(day) ==
    LET hydration_met == day.water.glasses >= day.water.target_glasses
    IN  hydration_met /\ OtherHits(day) >= 1

\* allow_complete
AllowComplete(day) ==
    LET hydration_met == day.water.glasses >= day.water.target_glasses
    IN  hydration_met /\ OtherHits(day) >= 2

\* a "disabled" argument that leaves out day["completed"]
CompleteDisabledIgnoresDone(day) == ~AllowComplete(day)

\* the "disabled" argument of the "Mark day complete" button
CompleteDisabled(day) == day.completed \/ ~AllowComplete(day)

\* a streak that grows after a gap of any number of days
StreakAfterLoose(profile, today) ==
    LET last == profile.last_day
    IN  IF last # NoneDate
        THEN IF IsoParses(last)
             THEN IF Ordinal(today) - Ordinal(FromIso(last)) >= 1
                  THEN profile.streak + 1
                  ELSE 1
             ELSE 1
        ELSE 1

\* the streak a completion at date today leaves
StreakAfter(profile, today) ==
    LET last == profile.last_day
    IN  IF last # NoneDate
        THEN IF IsoParses(last)
             THEN IF Ordinal(today) - Ordinal(FromIso(last)) = 1
                  THEN profile.streak + 1
                  ELSE 1
             ELSE 1
        ELSE 1

\* the body of "Mark day complete"; today is the date read inside it
CompleteSection(s, pressed, today) ==
    IF pressed
    THEN [profile |-> [s.profile EXCEPT
                          !.streak = StreakAfter(s.profile, today),
                          !.last_day = IsoFormat(today),
                          !.xp = @ + xp_for("day_complete")],
          day |-> [s.day EXCEPT !.completed = TRUE]]
    ELSE s

---------------------------------------------------------------------------
(* One run of the script.  w holds what the widgets return in the run and  *)
(* the two readings of the clock: w.TODAY (the day record's key) and       *)
(* w.today (read again inside "Mark day complete").                        *)

\* the script from load_profile to the end of the screen-time section
BeforeComplete(fs, w) ==
    LET p0 == load_profile(fs, w.name, w.TODAY)
        p1 == UpdateBasics(p0, w.gender, w.age, w.weight, w.height)
        water_rec == calculate_water_intake(w.age, w.gender, w.weight)
        d0 == PrepareDay(p1, IsoFormat(w.TODAY), water_rec, w.parent_limit)
        s1 == HydrationSection([profile |-> p1, day |-> d0], w.button = "water")
        s2 == FruitSection(s1, w.button = "fruit", w.fruit_choice, w.other_fruit)
        s3 == ProteinSection(s2, w.button = "protein", w.protein_sel)
        s4 == SchoolSection(s3, w.school_done)
        s5 == OutdoorSection(s4, w.button = "outdoor", w.outdoor_sel)
        s6 == IndoorSection(s5, w.button = "indoor", w.indoor_sel)
        s7 == ExamSection(s6, w.button = "exam", w.exam_min)
    IN  ScreenSection(s7, w.button = "screen", w.create_min, w.fun_min,
                      w.parent_limit)

\* the profile of a run that files the day dict under the date read inside
\* "Mark day complete"
FinalProfileLateKey(fs, w) ==
    LET s9 == CompleteSection(BeforeComplete(fs, w), w.button = "complete",
                              w.today)
    IN  [s9.profile EXCEPT !.days = Put(@, IsoFormat(w.today), s9.day)]

\* the profile the run saves: profile[TODAY] is the day dict
FinalProfile(fs, w) ==
    LET s9 == CompleteSection(BeforeComplete(fs, w), w.button = "complete",
                              w.today)
    IN  [s9.profile EXCEPT !.days = Put(@, IsoFormat(w.TODAY), s9.day)]

\* the script without the check of the name
ScriptAnyName(fs, w) == save_profile(fs, FinalProfile(fs, w))

\* the whole script: the files it leaves
Script(fs, w) ==
    IF Strip(w.name) = <<>> THEN fs       \* st.stop() before load_profile
    ELSE save_profile(fs, FinalProfile(fs, w))

\* what the widgets show, and return when the user leaves them alone
WidgetDefaults(fs, name, today) ==
    LET p0 == load_profile(fs, name, today)
        key == IsoFormat(today)
        day == IF key \in DOMAIN p0.days THEN p0.days[key]
               ELSE NewDay([glasses |-> 0, ml |-> 0], 60)
    IN  [ name |-> name,
          parent_limit |-> 60,
          gender |-> IF p0.gender \in GENDERS THEN p0.gender ELSE "Boy",
          age |-> OrNum(p0.age, 8),
          weight |-> OrNum(p0.weight, 50),
          height |-> OrNum(p0.height, 240),
          button |-> "",
          fruit_choice |-> APPLE,
          other_fruit |-> <<>>,
          protein_sel |-> {},
          school_done |-> day.school_work,
          outdoor_sel |-> day.outdoor,
          indoor_sel |-> day.indoor,
          exam_min |-> day.exam_prep_min,
          create_min |-> day.screen.create,
          fun_min |-> day.screen.fun,
          TODAY |-> today,
          today |-> today ]

---------------------------------------------------------------------------
(* Inputs the model draws *)

ChildNames == { n \in Names : Strip(n) # <<>> }
BlankNames == { n \in Names : Strip(n) = <<>> }

\* <<gender, age, weight in half kg>>: 25 kg at ages 3 and 8
BasicsChoices == { <<"Boy", 3, 50>>, <<"Boy", 8, 50>> }
FruitInputs == { <<APPLE, <<>>>>, <<OTHER_CHOICE, <<" ">>>>,
                 <<OTHER_CHOICE, <<" ", "k", "i", "w", "i">>>> }
ProteinSels == { {}, {"Egg"} }
OutdoorSels == { {}, {"Football"} }
IndoorSels == { {}, {"Chess"} }
ExamMinutes == { 0, 10, 25 }
ScreenInputs == { <<10, 30>>, <<20, 0>> }

\* the model's cut-offs on the program's unbounded per-day counters
WithinBounds(fs) ==
    \A k \in FileKeys : fs[k] # <<>> =>
        \A dk \in DOMAIN fs[k][1].days :
            /\ fs[k][1].days[dk].water.glasses <= MaxGlasses
            /\ Len(fs[k][1].days[dk].fruit.items) <= MaxFruit

\* the xp shown for the child called name (0 without a file)
XpOf(fs, name) == load_profile(fs, name, StartDate).xp

\* a run of the script with widget values w
Run(w) ==
    /\ files' = Script(files, w)
    /\ WithinBounds(files')
    /\ xpLeft' = IF w.button = "complete" THEN xpLeft
                 ELSE xpLeft - (XpOf(files', w.name) - XpOf(files, w.name))
    /\ xpLeft' >= 0
    /\ clock' = w.today
    /\ UNCHANGED calc

---------------------------------------------------------------------------
(* Actions: one per interaction that re-runs the script *)

\* a run with an empty or blank name
BlankName ==
    \E n \in BlankNames : Run([WidgetDefaults(files, n, clock) EXCEPT !.name = n])

\* the user changes gender, age or weight
\* child n's gender, age and weight are set to b
EditsBasics(n, b) ==
    Run([WidgetDefaults(files, n, clock) EXCEPT
             !.gender = b[1], !.age = b[2], !.weight = b[3]])

EditBasics ==
    \E n \in ChildNames, b \in BasicsChoices : EditsBasics(n, b)

\* child n presses "I drank 1 glass"
DrinksGlass(n) ==
    Run([WidgetDefaults(files, n, clock) EXCEPT !.button = "water"])

DrinkGlass ==
    \E n \in ChildNames : DrinksGlass(n)

AddFruit ==
    \E n \in ChildNames, f \in FruitInputs :
        Run([WidgetDefaults(files, n, clock) EXCEPT
                 !.button = "fruit", !.fruit_choice = f[1], !.other_fruit = f[2]])

SaveProtein ==
    \E n \in ChildNames, sel \in ProteinSels :
        Run([WidgetDefaults(files, n, clock) EXCEPT
                 !.button = "protein", !.protein_sel = sel])

\* the user ticks or unticks the school-work checkbox
TogglesSchoolWork(n, done) ==
    Run([WidgetDefaults(files, n, clock) EXCEPT !.school_done = done])

ToggleSchoolWork ==
    \E n \in ChildNames, done \in BOOLEAN : TogglesSchoolWork(n, done)

SaveOutdoor ==
    \E n \in ChildNames, sel \in OutdoorSels :
        Run([WidgetDefaults(files, n, clock) EXCEPT
                 !.button = "outdoor", !.outdoor_sel = sel])

SaveIndoor ==
    \E n \in ChildNames, sel \in IndoorSels :
        Run([WidgetDefaults(files, n, clock) EXCEPT
                 !.button = "indoor", !.indoor_sel = sel])

\* child n enters m study minutes and presses "Save study time"
SavesStudyTime(n, m) ==
    Run([WidgetDefaults(files, n, clock) EXCEPT
             !.button = "exam", !.exam_min = m])

SaveStudyTime ==
    \E n \in ChildNames, m \in ExamMinutes : SavesStudyTime(n, m)

\* child n enters the two screen-time values and presses "Save screen time"
SavesScreenTime(n, create_min, fun_min) ==
    Run([WidgetDefaults(files, n, clock) EXCEPT
             !.button = "screen", !.create_min = create_min,
             !.fun_min = fun_min])

SaveScreenTime ==
    \E n \in ChildNames, sc \in ScreenInputs :
        SavesScreenTime(n, sc[1], sc[2])

\* the date may change between the script's two readings of the clock
MarkDayComplete ==
    \E n \in ChildNames, t \in {clock, NextDay(clock)} :
        LET w == [WidgetDefaults(files, n, clock) EXCEPT
                      !.button = "complete", !.today = t]
        IN  /\ ~CompleteDisabled(BeforeComplete(files, w).day)
            /\ Ordinal(t) - Ordinal(StartDate) <= MaxDays
            /\ Run(w)

\* midnight passes
Tick ==
    /\ Ordinal(clock) - Ordinal(StartDate) < MaxDays
    /\ clock' = NextDay(clock)
    /\ UNCHANGED <<files, calc, xpLeft>>

---------------------------------------------------------------------------
(* Initial states.  The script starts from whatever earlier sessions left  *)
(* in bb_data/.  Each initial storage below is what the script itself      *)
(* leaves, starting from an empty directory, after the child Ali (boy, 8   *)
(* years, 25 kg: a target of 5 glasses) logged the listed activities.      *)

ALI == <<"A", "l", "i">>

EmptyFiles == [k \in FileKeys |-> <<>>]
Yesterday == [y |-> 2025, m |-> 1, d |-> 31]
DayBefore == [y |-> 2025, m |-> 1, d |-> 30]

\* the day record after that many glasses, an apple, school work and 10
\* minutes of exam preparation
SeedDay(glasses, completed) ==
    [NewDay([glasses |-> 5, ml |-> 1200], 60) EXCEPT
         !.water.glasses = glasses,
         !.fruit.items = <<APPLE>>,
         !.school_work = TRUE,
         !.exam_prep_min = 10,
         !.completed = completed]

\* xp the script gave for the activities of SeedDay
SeedDayXp(glasses, completed) ==
      glasses * xp_for("water_glass") + xp_for("fruit") + xp_for("school")
    + xp_for("exam_5min") * (10 \div 5)
    + (IF completed THEN xp_for("day_complete") ELSE 0)

\* Ali's profile: an earlier day (if any) done with 5 glasses and marked
\* complete, and StartDate one glass short of its target.  The badges are
\* those of the latest run: 4 of 5 glasses, one fruit
SeedProfile(earlier) ==
    [DEFAULT_PROFILE EXCEPT
         !.name = ALI, !.gender = "Boy", !.age = 8, !.weight = 50,
         !.height = 240,
         !.created = IF earlier = <<>> THEN IsoFormat(StartDate)
                     ELSE IsoFormat(earlier[1]),
         !.streak = Len(earlier),
         !.last_day = IF earlier = <<>> THEN NoneDate
                      ELSE IsoFormat(earlier[1]),
         !.xp = Len(earlier) * SeedDayXp(5, TRUE) + SeedDayXp(4, FALSE),
         !.badges = [hydration |-> "Gold", fruit |-> "Bronze"],
         !.days = IF earlier = <<>>
                  THEN (IsoFormat(StartDate) :> SeedDay(4, FALSE))
                  ELSE (IsoFormat(earlier[1]) :> SeedDay(5, TRUE))
                       @@ (IsoFormat(StartDate) :> SeedDay(4, FALSE))]

\* the storage holding profile p
SeedFiles(p) == save_profile(EmptyFiles, p)

\* the files of each initial state: nothing stored; no earlier day; yesterday
\* completed; the day before yesterday completed and yesterday skipped
Seeds == << EmptyFiles,
            SeedFiles(SeedProfile(<<>>)),
            SeedFiles(SeedProfile(<<Yesterday>>)),
            SeedFiles(SeedProfile(<<DayBefore>>)) >>

\* no call of the calculators under way
NoCalc == [fn |-> "none"]

Init ==
    /\ \E i \in DOMAIN Seeds : files = Seeds[i]
    /\ xpLeft = MaxXp
    /\ clock = StartDate
    /\ calc = NoCalc

Next ==
    \/ BlankName
    \/ EditBasics
    \/ DrinkGlass
    \/ AddFruit
    \/ SaveProtein
    \/ ToggleSchoolWork
    \/ SaveOutdoor
    \/ SaveIndoor
    \/ SaveStudyTime
    \/ SaveScreenTime
    \/ MarkDayComplete
    \/ Tick

Spec == Init /\ [][Next]_vars

---------------------------------------------------------------------------
(* The calculators on their own.  calc holds the arguments of one call and, *)
(* once the call has run, its result.                                       *)

Ages == 0..MaxAge
\* the radio's three values, and "girl" in other capitalisations
GenderInputs == GENDERS \cup {"girl", "GIRL"}
\* weights in half kilograms; None and 0 take the fallback
WeightInputs == {NoneNum} \cup 0..MaxWeight2

\* calls of calculate_water_intake still to run
WaterCalls ==
    { [fn |-> "water", age |-> a, gender |-> g, weight |-> w, out |-> <<>>,
       heavier |-> <<>>] : a \in Ages, g \in GenderInputs, w \in WeightInputs }

\* calculate_water_intake runs for the weight, and for the weight plus 0.5 kg
CalcWater ==
    /\ calc.fn = "water"
    /\ calc.out = <<>>
    /\ calc' = [calc EXCEPT
                   !.out = <<calculate_water_intake(calc.age, calc.gender,
                                                    calc.weight)>>,
                   !.heavier =
                       <<calculate_water_intake(
                             calc.age, calc.gender,
                             IF calc.weight = NoneNum THEN 1
                             ELSE calc.weight + 1)>>]
    /\ UNCHANGED <<files, clock, xpLeft>>

\* the dates "Mark day complete" is pressed on: after a month of 31 days, on
\* new year's day, after February in a common year and in a leap year
TodayInputs ==
    { StartDate, [y |-> 2025, m |-> 1, d |-> 1], [y |-> 2025, m |-> 3, d |-> 1],
      [y |-> 2024, m |-> 3, d |-> 1] }

\* what the profile holds under "last_day": nothing, a date string, or a
\* string date.fromisoformat rejects
LastDayInputs ==
    { NoneDate,
      <<2025, 2, 2>>, <<2025, 2, 1>>, <<2025, 1, 31>>, <<2025, 1, 30>>,
      <<2024, 12, 31>>, <<2024, 12, 30>>, <<2025, 2, 28>>, <<2025, 2, 27>>,
      <<2024, 2, 29>>, <<2024, 2, 28>>, <<2024, 3, 1>>,
      <<2025, 2, 29>>, <<2025, 13, 1>>, <<2025, 1>>, <<0, 1, 1>> }

\* presses of "Mark day complete" still to run
CompleteCalls ==
    { [fn |-> "complete", streak |-> st, last_day |-> l, today |-> t,
       out |-> <<>>] :
          st \in 0..MaxStreak, l \in LastDayInputs, t \in TodayInputs }

\* the body of "Mark day complete" runs on a profile with the given streak
\* and last_day
CalcComplete ==
    /\ calc.fn = "complete"
    /\ calc.out = <<>>
    /\ LET p == [DEFAULT_PROFILE EXCEPT !.name = ALI, !.streak = calc.streak,
                                        !.last_day = calc.last_day]
           d == NewDay([glasses |-> 5, ml |-> 1200], 60)
       IN  calc' = [calc EXCEPT !.out =
                       <<CompleteSection([profile |-> p, day |-> d], TRUE,
                                         calc.today)>>]
    /\ UNCHANGED <<files, clock, xpLeft>>

\* Arguments of any type.  An argument is a record: t is "none" for None,
\* "text" for a string that is no number, "num" or "str" for a value v.
AgeArgs == { [t |-> "none"] } \cup { [t |-> "num", v |-> a] : a \in {0, 2, 8, 10, 15} }
GenderArgs == { [t |-> "none"] } \cup { [t |-> "str", v |-> g] : g \in {"", "Boy", "Girl"} }
WeightArgs ==
    { [t |-> "none"], [t |-> "text"] }
        \cup { [t |-> "num", v |-> w] : w \in {-20, 0, 50, 90} }

\* calculate_water_intake on arguments of any type: the exception it ends
\* in, or its result
calculate_water_intake_any(age, gender, weight) ==
    LET \* float(weight) if weight else 0.0, and 0.0 when float() raises
        weight2 == IF weight.t = "num" THEN weight.v ELSE 0
    IN  IF age.t = "none"
        THEN [raised |-> "TypeError"]              \* None <= 3
        ELSE IF gender.t = "none" /\ 9 <= age.v /\ age.v <= 18
        THEN [raised |-> "AttributeError"]         \* None.lower()
        ELSE [raised |-> "",
              res |-> calculate_water_intake(
                          age.v, IF gender.t = "none" THEN "" ELSE gender.v,
                          weight2)]

\* calls of calculate_water_intake with arguments of any type
WaterAnyCalls ==
    { [fn |-> "water_any", age |-> a, gender |-> g, weight |-> w,
       out |-> <<>>] : a \in AgeArgs, g \in GenderArgs, w \in WeightArgs }

CalcWaterAny ==
    /\ calc.fn = "water_any"
    /\ calc.out = <<>>
    /\ calc' = [calc EXCEPT !.out =
                   <<calculate_water_intake_any(calc.age, calc.gender,
                                                calc.weight)>>]
    /\ UNCHANGED <<files, clock, xpLeft>>

\* today's fruit lists "Add fruit" starts from
FruitStarts ==
    { <<>>, <<APPLE>>, <<APPLE, <<"k", "i", "w", "i">>>> }

\* presses of "Add fruit" on one day record: s is the profile and day the
\* section works on, start the fruit list and xp it began with, last the
\* latest <<fruit_choice, other_fruit>>
FruitCalls ==
    { [fn |-> "fruit",
       s |-> [profile |-> [DEFAULT_PROFILE EXCEPT !.name = ALI],
              day |-> [NewDay([glasses |-> 5, ml |-> 1200], 60) EXCEPT
                           !.fruit.items = items]],
       start |-> items, adds |-> 0, last |-> <<>>] : items \in FruitStarts }

\* the fruit section runs with "Add fruit" pressed
CalcAddFruit ==
    /\ calc.fn = "fruit"
    /\ calc.adds < MaxAdds
    /\ \E f \in FruitInputs :
           calc' = [calc EXCEPT
                       !.s = FruitSection(calc.s, TRUE, f[1], f[2]),
                       !.adds = @ + 1,
                       !.last = f]
    /\ UNCHANGED <<files, clock, xpLeft>>

\* evaluations of the hydration badge still to run
HydrationCalls ==
    { [fn |-> "hydration", glasses |-> g, target |-> t, out |-> <<>>] :
          g \in 0..MaxDrunk, t \in 1..MaxTarget }

\* the hydration section runs, without a press, on a profile with no badges;
\* out is the tier it records, "" when it records none
CalcHydration ==
    /\ calc.fn = "hydration"
    /\ calc.out = <<>>
    /\ LET d == [NewDay([glasses |-> calc.target, ml |-> 250 * calc.target], 60)
                     EXCEPT !.water.glasses = calc.glasses]
           p == [DEFAULT_PROFILE EXCEPT !.name = ALI]
           after == HydrationSection([profile |-> p, day |-> d], FALSE)
       IN  calc' = [calc EXCEPT !.out =
                       <<IF "hydration" \in DOMAIN after.profile.badges
                         THEN after.profile.badges["hydration"] ELSE "">>]
    /\ UNCHANGED <<files, clock, xpLeft>>

\* the keys a stored profile may lack, and the keys its record of today may
\* lack ("glasses" is the key inside the "water" dict)
ProfileFields == {"xp", "badges", "streak", "last_day"}
DayFields == {"water", "glasses", "fruit", "protein", "school_work", "outdoor",
              "indoor", "exam_prep_min", "screen", "completed"}

\* a profile written by earlier sessions: yesterday completed, and today that
\* many glasses, an apple, school work and 10 minutes of exam preparation
StoredProfile(glasses) ==
    [SeedProfile(<<Yesterday>>) EXCEPT
         !.days[IsoFormat(StartDate)].water.glasses = glasses,
         !.xp = SeedDayXp(5, TRUE) + SeedDayXp(glasses, FALSE),
         !.badges = [hydration |-> "Legend", fruit |-> "Bronze"]]

\* function f without key k
Drop(f, k) == [x \in DOMAIN f \ {k} |-> f[x]]

\* profile p as the file holds it when the key is absent
Lacking(p, field) ==
    LET key == IsoFormat(StartDate)
    IN  IF field \in ProfileFields THEN Drop(p, field)
        ELSE IF field = "glasses"
        THEN [p EXCEPT !.days[key].water = Drop(@, "glasses")]
        ELSE [p EXCEPT !.days[key] = Drop(@, field)]

\* profile p with the key holding the value DEFAULT_PROFILE, or the literal of
\* a new day record, gives it
Defaulted(p, field) ==
    LET key == IsoFormat(StartDate)
        fresh == NewDay(calculate_water_intake(p.age, p.gender, p.weight), 60)
    IN  IF field \in ProfileFields
        THEN [x \in DOMAIN p |-> IF x = field THEN DEFAULT_PROFILE[x] ELSE p[x]]
        ELSE IF field = "glasses"
        THEN [p EXCEPT !.days[key].water.glasses = 0]
        ELSE [p EXCEPT !.days[key] =
                 [x \in DOMAIN @ |-> IF x = field THEN fresh[x] ELSE @[x]]]

\* what the user does in the run
Presses == {"", "water", "fruit", "protein", "school", "outdoor", "indoor",
            "exam", "screen", "complete"}

\* the widgets of a run on storage fs in which the user does that
PressWidgets(fs, press) ==
    LET wd == WidgetDefaults(fs, ALI, StartDate)
    IN  [wd EXCEPT
            !.button = IF press = "school" THEN "" ELSE press,
            !.protein_sel = IF press = "protein" THEN {"Egg"} ELSE @,
            !.school_done = IF press = "school" THEN ~@ ELSE @,
            !.outdoor_sel = IF press = "outdoor" THEN {"Football"} ELSE @,
            !.indoor_sel = IF press = "indoor" THEN {"Chess"} ELSE @,
            !.exam_min = IF press = "exam" THEN 25 ELSE @,
            !.create_min = IF press = "screen" THEN 20 ELSE @]

\* some statement of the run executes profile["xp"] += ...
AddsXp(d0, w) ==
    \/ w.button = "water"
    \/ /\ w.button = "fruit"
       /\ (IF w.fruit_choice = OTHER_CHOICE THEN Strip(w.other_fruit)
           ELSE w.fruit_choice) # <<>>
    \/ w.button = "protein" /\ w.protein_sel # {}
    \/ w.school_done /\ ~d0.school_work
    \/ w.button = "outdoor" /\ w.outdoor_sel # {}
    \/ w.button = "indoor" /\ w.indoor_sel # {}
    \/ w.button \in {"exam", "screen", "complete"}

\* the sections up to the protein badge, on the profile with the key defaulted
UpToProtein(p, w) ==
    LET fs == SeedFiles(p)
        p1 == UpdateBasics(load_profile(fs, w.name, w.TODAY),
                           w.gender, w.age, w.weight, w.height)
        d0 == PrepareDay(p1, IsoFormat(w.TODAY),
                         calculate_water_intake(w.age, w.gender, w.weight),
                         w.parent_limit)
        s1 == HydrationSection([profile |-> p1, day |-> d0], w.button = "water")
        s2 == FruitSection(s1, w.button = "fruit", w.fruit_choice, w.other_fruit)
    IN  [d0 |-> d0, level |-> award_level(Progress(s1.day)),
         fruit_count |-> Len(s2.day.fruit.items),
         protein |-> ProteinSection(s2, w.button = "protein",
                                    w.protein_sel).day.protein.items]

\* the run subscripts the absent key: profile["xp"] += ..., or
\* profile["badges"][...] = lvl when setdefault("badges", {}) has not run, or
\* day[field], which every run evaluates; "streak" and "last_day" are read
\* with .get, "water" and "glasses" are filled in when today's record is
\* prepared
RaisesKeyError(p, field, w) ==
    LET u == UpToProtein(p, w)
    IN  CASE field = "xp" -> AddsXp(u.d0, w)
          [] field = "badges" ->
                 u.level = "" /\ (u.fruit_count >= 1 \/ u.protein # {})
          [] field \in {"streak", "last_day", "water", "glasses"} -> FALSE
          [] OTHER -> TRUE

\* the run assigns the absent key, so that the saved profile holds it
Assigns(p, field, w) ==
    CASE field = "xp" -> FALSE
      [] field = "badges" -> UpToProtein(p, w).level # ""
      [] field \in {"streak", "last_day"} -> w.button = "complete"
      [] OTHER -> TRUE

\* one run on a stored profile that lacks the key: the exception that ends
\* it, if any, and the profile in the file afterwards
RunLacking(stored, field, w) ==
    LET p == Defaulted(stored, field)
        saved == Script(SeedFiles(p), w)[UserFile(ALI)][1]
    IN  IF RaisesKeyError(p, field, w)
        THEN [raised |-> "KeyError", profile |-> Lacking(stored, field)]
        ELSE [raised |-> "",
              profile |-> IF Assigns(p, field, w) THEN saved
                          ELSE Drop(saved, field)]

\* runs still to make on a stored profile lacking one key; "Mark day
\* complete" can be pressed only while it is enabled
LackingCalls ==
    { c \in [fn : {"lacking"}, glasses : {1, MaxGlasses},
             field : ProfileFields \cup DayFields, press : Presses,
             out : {<<>>}] :
          c.press = "complete" =>
              ~CompleteDisabled(Defaulted(StoredProfile(c.glasses), c.field)
                                    .days[IsoFormat(StartDate)]) }

\* the widgets of the run of call c
LackingWidgets(c) ==
    PressWidgets(SeedFiles(Defaulted(StoredProfile(c.glasses), c.field)),
                 c.press)

\* the script runs on the stored profile that lacks the key
CalcLacking ==
    /\ calc.fn = "lacking"
    /\ calc.out = <<>>
    /\ calc' = [calc EXCEPT !.out =
                   <<RunLacking(StoredProfile(calc.glasses), calc.field,
                                LackingWidgets(calc))>>]
    /\ UNCHANGED <<files, clock, xpLeft>>

\* the storage in which Ali's file cannot be decoded
GarbledFiles == [EmptyFiles EXCEPT ![UserFile(ALI)] = GARBLED]

\* runs still to make on that storage ("Mark day complete" is disabled on a
\* new day)
CorruptCalls ==
    { [fn |-> "corrupt", press |-> b, out |-> <<>>] :
          b \in Presses \ {"complete"} }

\* the script runs for Ali on the storage with the garbled file; out is the
\* storage it leaves
CalcCorrupt ==
    /\ calc.fn = "corrupt"
    /\ calc.out = <<>>
    /\ calc' = [calc EXCEPT !.out =
                   <<Script(GarbledFiles, PressWidgets(GarbledFiles, calc.press))>>]
    /\ UNCHANGED <<files, clock, xpLeft>>

\* what may be in the "Child's Name" box when no name is typed
BlankTexts == { <<>>, <<" ">>, <<" ", " ">> }

\* the storage a session with no name may find: nothing, Ali's profile, and
\* also a profile in the file an empty name maps to
BlankStorages ==
    << EmptyFiles,
       SeedFiles(StoredProfile(MaxGlasses)),
       [SeedFiles(StoredProfile(MaxGlasses)) EXCEPT ![UserFile(<<>>)] =
            <<[StoredProfile(1) EXCEPT !.name = <<>>]>>] >>

\* runs still to make with such a name
BlankCalls ==
    { [fn |-> "blank", name |-> n, storage |-> i, out |-> <<>>] :
          n \in BlankTexts, i \in DOMAIN BlankStorages }

\* the script runs with nothing but blanks in the name box; the widgets
\* below the box are not reached
CalcBlank ==
    /\ calc.fn = "blank"
    /\ calc.out = <<>>
    /\ LET fs == BlankStorages[calc.storage]
       IN  calc' = [calc EXCEPT !.out =
                       <<Script(fs, WidgetDefaults(fs, calc.name, StartDate))>>]
    /\ UNCHANGED <<files, clock, xpLeft>>

\* The text of a file as the tree of JSON values json.dump writes: null,
\* true/false, a number (with a fraction part when the Python value is a
\* float), a string, an array or an object.  The day records, which the
\* script keeps in the profile dict under their date strings, are the
\* members of "days" here.
JsonNull == [t |-> "null", v |-> "null"]
JsonBool(b) == [t |-> "bool", v |-> b]
JsonInt(n) == [t |-> "number", v |-> n, frac |-> FALSE]
JsonFloat(x) == [t |-> "number", v |-> x, frac |-> TRUE]
JsonString(s) == [t |-> "string", v |-> s]
JsonArray(a) == [t |-> "array", v |-> a]
JsonObject(o) == [t |-> "object", v |-> o]

\* a Python list holding the members of S
ListOf(S) ==
    CHOOSE a \in [1..Cardinality(S) -> S] : { a[i] : i \in DOMAIN a } = S

\* json.dump of a day record
JsonDumpDay(d) ==
    JsonObject(
      [ water |-> JsonObject([glasses |-> JsonInt(d.water.glasses),
                              target_glasses |-> JsonInt(d.water.target_glasses),
                              target_ml |-> JsonInt(d.water.target_ml)]),
        fruit |-> JsonObject([items |-> JsonArray(
                     [i \in DOMAIN d.fruit.items |-> JsonString(d.fruit.items[i])])]),
        protein |-> JsonObject([items |-> JsonArray(
                     [i \in 1..Cardinality(d.protein.items) |->
                          JsonString(ListOf(d.protein.items)[i])])]),
        school_work |-> JsonBool(d.school_work),
        outdoor |-> JsonArray([i \in 1..Cardinality(d.outdoor) |->
                                   JsonString(ListOf(d.outdoor)[i])]),
        indoor |-> JsonArray([i \in 1..Cardinality(d.indoor) |->
                                  JsonString(ListOf(d.indoor)[i])]),
        exam_prep_min |-> JsonInt(d.exam_prep_min),
        screen |-> JsonObject([create |-> JsonInt(d.screen.create),
                               fun |-> JsonInt(d.screen.fun),
                               limit |-> JsonInt(d.screen.limit)]),
        completed |-> JsonBool(d.completed) ])

\* the members json.dump writes for a profile
JsonMembers(p) ==
    [ name |-> JsonString(p.name),
      gender |-> JsonString(p.gender),
      age |-> IF p.age = NoneNum THEN JsonNull ELSE JsonInt(p.age),
      weight |-> IF p.weight = NoneNum THEN JsonNull ELSE JsonFloat(p.weight),
      height |-> IF p.height = NoneNum THEN JsonNull ELSE JsonFloat(p.height),
      created |-> IF p.created = NoneDate THEN JsonNull
                  ELSE JsonString(p.created),
      streak |-> JsonInt(p.streak),
      last_day |-> IF p.last_day = NoneDate THEN JsonNull
                   ELSE JsonString(p.last_day),
      xp |-> JsonInt(p.xp),
      badges |-> JsonObject([b \in DOMAIN p.badges |-> JsonString(p.badges[b])]),
      days |-> JsonObject([dk \in DOMAIN p.days |-> JsonDumpDay(p.days[dk])]) ]

\* a writer that leaves out the members whose value is null
JsonDumpSkipsNull(p) ==
    LET o == JsonMembers(p)
    IN  JsonObject([m \in { x \in DOMAIN o : o[x].t # "null" } |-> o[m]])

\* json.dump(profile, f)
JsonDump(p) == JsonObject(JsonMembers(p))

\* the members of array a as the set the model keeps for such a list
SetOf(a) == { a.v[i].v : i \in DOMAIN a.v }

\* json.load of a day record
JsonLoadDay(j) ==
    LET o == j.v
    IN  [ water |-> [m \in DOMAIN o.water.v |-> o.water.v[m].v],
          fruit |-> [items |-> [i \in DOMAIN o.fruit.v.items.v |->
                                    o.fruit.v.items.v[i].v]],
          protein |-> [items |-> SetOf(o.protein.v.items)],
          school_work |-> o.school_work.v,
          outdoor |-> SetOf(o.outdoor),
          indoor |-> SetOf(o.indoor),
          exam_prep_min |-> o.exam_prep_min.v,
          screen |-> [m \in DOMAIN o.screen.v |-> o.screen.v[m].v],
          completed |-> o.completed.v ]

\* json.load(f): every member the text holds, null read as None
JsonLoad(j) ==
    [ m \in DOMAIN j.v |->
        IF j.v[m].t = "null"
        THEN (IF m \in {"created", "last_day"} THEN NoneDate ELSE NoneNum)
        ELSE IF m = "badges" THEN [b \in DOMAIN j.v[m].v |-> j.v[m].v[b].v]
        ELSE IF m = "days"
        THEN [dk \in DOMAIN j.v[m].v |-> JsonLoadDay(j.v[m].v[dk])]
        ELSE j.v[m].v ]

\* the directory with the text of every stored profile
TextFiles(fs) ==
    [k \in FileKeys |-> IF fs[k] = <<>> THEN <<>> ELSE <<JsonDump(fs[k][1])>>]

\* save_profile(profile) on the directory of texts
SaveText(disk, profile) ==
    [disk EXCEPT ![UserFile(profile.name)] = <<JsonDump(profile)>>]

\* load_profile(name) on the directory of texts
LoadText(disk, name, today) ==
    IF disk[UserFile(name)] # <<>>
    THEN JsonLoad(disk[UserFile(name)][1])
    ELSE [DEFAULT_PROFILE EXCEPT !.name = name, !.created = IsoFormat(today)]

\* the names a child may type: as stored, in lower case, with a blank
\* behind, and one without a letter or digit
TypedNames == { ALI, <<"a", "l", "i">>, <<"A", "l", "i", " ">>, <<"!">> }

\* what earlier sessions left
RoundTripStorages ==
    << EmptyFiles,
       SeedFiles(SeedProfile(<<>>)),
       SeedFiles(StoredProfile(1)),
       SeedFiles(StoredProfile(MaxGlasses)) >>

\* the widgets of the session that ends: the child presses one button
RoundTripWidgets(c) ==
    LET fs == RoundTripStorages[c.storage]
        wd == WidgetDefaults(fs, c.name, StartDate)
    IN  [wd EXCEPT !.button = c.press,
                   !.protein_sel = IF c.press = "protein" THEN {"Egg"} ELSE @,
                   !.outdoor_sel = IF c.press = "outdoor"
                                   THEN {"Football", "Cycling"} ELSE @]

\* sessions still to end and start again
RoundTripCalls ==
    { c \in [fn : {"roundtrip"}, name : TypedNames,
             storage : DOMAIN RoundTripStorages,
             press : {"", "water", "fruit", "protein", "outdoor", "complete"},
             out : {<<>>}] :
          c.press = "complete" =>
              ~CompleteDisabled(BeforeComplete(RoundTripStorages[c.storage],
                                               RoundTripWidgets(c)).day) }

\* the profile the session of call c saves at its end
SavedState(c) == FinalProfile(RoundTripStorages[c.storage], RoundTripWidgets(c))

\* a session ends with save_profile and the next one starts with
\* load_profile under the same typed name; out is the profile it loads
CalcRoundTrip ==
    /\ calc.fn = "roundtrip"
    /\ calc.out = <<>>
    /\ LET disk == SaveText(TextFiles(RoundTripStorages[calc.storage]),
                            SavedState(calc))
       IN  calc' = [calc EXCEPT !.out =
                       <<LoadText(disk, calc.name, NextDay(StartDate))>>]
    /\ UNCHANGED <<files, clock, xpLeft>>

InitCalc ==
    /\ files = EmptyFiles
    /\ clock = StartDate
    /\ xpLeft = 0
    /\ calc \in WaterCalls \cup CompleteCalls
                \cup WaterAnyCalls
                \cup FruitCalls
                \cup HydrationCalls
                \cup LackingCalls
                \cup CorruptCalls
                \cup BlankCalls
                \cup RoundTripCalls

NextCalc ==
    \/ CalcWater
    \/ CalcComplete
    \/ CalcWaterAny
    \/ CalcAddFruit
    \/ CalcHydration
    \/ CalcLacking
    \/ CalcCorrupt
    \/ CalcBlank
    \/ CalcRoundTrip

SpecCalc == InitCalc /\ [][NextCalc]_vars

---------------------------------------------------------------------------
(* Properties *)

\* the file keys under which a profile is stored
Held == { k \in FileKeys : files[k] # <<>> }

\* the ISO keys of the completed day records of profile p
Done(p) == { dk \in DOMAIN p.days : p.days[dk].completed }

\* C1: across all runs of the script (any actions, sessions and days) a
\* profile's xp is a non-negative integer and no run lowers it.
C1XpNeverDecreases ==
    /\ [](\A k \in Held : files[k][1].xp \in Nat)
    /\ [][\A k \in Held :
              /\ files'[k] # <<>>
              /\ files'[k][1].xp >= files[k][1].xp]_vars

\* C1 witness: after a day was completed yesterday, today's fifth glass was
\* logged and today was completed: xp has grown by the glass and the bonus
C1Witness ==
    \E k \in Held :
        /\ Cardinality(Done(files[k][1])) = 2
        /\ files[k][1].xp = 2 * SeedDayXp(5, TRUE)

\* the minutes of exam preparation stored for child n on the clock's date
StoredExamMin(n) == WidgetDefaults(files, n, clock).exam_min
\* the "create" minutes stored for child n on the clock's date
StoredCreateMin(n) == WidgetDefaults(files, n, clock).create_min
\* the xp stored for child n (0 without a file)
StoredXp(n) == XpOf(files, n)

\* C2: saving n exam-prep minutes over a stored value p adds
\* 2 * ((n - p) // 5) xp when n > p and nothing when n <= p, and stores n.
C2ExamXpIsPositiveDelta ==
    [][\A n \in ChildNames, m \in ExamMinutes :
          SavesStudyTime(n, m) =>
              /\ files'[UserFile(n)][1].xp =
                     StoredXp(n)
                     + (IF m > StoredExamMin(n)
                        THEN 2 * ((m - StoredExamMin(n)) \div 5) ELSE 0)
              /\ files'[UserFile(n)][1].days[IsoFormat(clock)].exam_prep_min
                     = m]_vars

\* C3: saving screen time adds 4 xp per whole 10 minutes by which "create"
\* exceeds the stored value, and nothing for the same or a lower value.
C3ScreenXpIsPositiveDelta ==
    [][\A n \in ChildNames, sc \in ScreenInputs :
          SavesScreenTime(n, sc[1], sc[2]) =>
              files'[UserFile(n)][1].xp =
                  StoredXp(n)
                  + (IF sc[1] > StoredCreateMin(n)
                     THEN 4 * ((sc[1] - StoredCreateMin(n)) \div 10)
                     ELSE 0)]_vars

\* C4: a day record whose completed flag is true is still stored, with the
\* flag true, after every run of the script.
C4CompletedIsOneWay ==
    [][\A k \in Held : \A dk \in Done(files[k][1]) :
           /\ files'[k] # <<>>
           /\ dk \in DOMAIN files'[k][1].days
           /\ files'[k][1].days[dk].completed]_vars

\* C4 witness: a completed day whose water target has since risen above the
\* glasses drunk
C4Witness ==
    \E k \in Held : \E dk \in Done(files[k][1]) :
        files[k][1].days[dk].water.glasses
            < files[k][1].days[dk].water.target_glasses

\* C5: the 30-point bonus comes only with a day record turning completed,
\* one record a run: a run that completes no further day leaves streak and
\* last_day alone and adds less than the bonus (every award for logging in
\* this model is smaller than 30).
C5BonusOncePerDay ==
    [][\A k \in Held :
          /\ files'[k] # <<>>
          /\ IF Done(files'[k][1]) = Done(files[k][1])
             THEN /\ files'[k][1].streak = files[k][1].streak
                  /\ files'[k][1].last_day = files[k][1].last_day
                  /\ files'[k][1].xp - files[k][1].xp < xp_for("day_complete")
             ELSE /\ Cardinality(Done(files'[k][1]) \ Done(files[k][1])) = 1
                  /\ files'[k][1].xp - files[k][1].xp
                         = xp_for("day_complete")]_vars

\* C5 witness: today was completed and a session of the next day has run
C5Witness ==
    \E k \in Held :
        /\ IsoFormat(StartDate) \in Done(files[k][1])
        /\ IsoFormat(NextDay(StartDate)) \in DOMAIN files[k][1].days

\* how many of the six other items a day record meets
HitCount(d) ==
    Cardinality(
        { c \in {"fruit", "protein", "school", "outdoor", "indoor", "exam"} :
              \/ c = "fruit" /\ d.fruit.items # <<>>
              \/ c = "protein" /\ d.protein.items # {}
              \/ c = "school" /\ d.school_work
              \/ c = "outdoor" /\ d.outdoor # {}
              \/ c = "indoor" /\ d.indoor # {}
              \/ c = "exam" /\ d.exam_prep_min >= 10 })

\* C6: a run turns a day record's completed flag from false to true only if
\* the stored record has glasses >= target glasses and meets at least 2 of
\* the six other items.
C6CompletionGate ==
    [][\A k \in FileKeys : files'[k] # <<>> =>
           \A dk \in Done(files'[k][1]) :
               (k \notin Held \/ dk \notin Done(files[k][1])) =>
                   /\ k \in Held
                   /\ dk \in DOMAIN files[k][1].days
                   /\ files[k][1].days[dk].water.glasses
                          >= files[k][1].days[dk].water.target_glasses
                   /\ HitCount(files[k][1].days[dk]) >= 2]_vars

\* C6 witness: a day completed with target 5, 5 glasses, a fruit and school
\* work, and nothing else
C6Witness ==
    \E k \in Held : \E dk \in Done(files[k][1]) :
        LET d == files[k][1].days[dk]
        IN  /\ d.water.target_glasses = 5
            /\ d.water.glasses = 5
            /\ d.fruit.items # <<>>
            /\ d.school_work
            /\ d.protein.items = {}
            /\ d.outdoor = {}
            /\ d.indoor = {}
            /\ d.exam_prep_min = 0

\* C7: completing a day at date today makes last_day today; the streak grows
\* by 1 if last_day was the calendar day before today, and becomes 1 for any
\* other last_day (none, unparseable, two or more days earlier).
C7StreakUpdate ==
    (calc.fn = "complete" /\ calc.out # <<>>) =>
        /\ calc.out[1].profile.last_day = IsoFormat(calc.today)
        /\ calc.out[1].profile.streak =
               IF /\ IsoParses(calc.last_day)
                  /\ NextDay(FromIso(calc.last_day)) = calc.today
               THEN calc.streak + 1
               ELSE 1

\* C7 witness: a streak of 3 ending on 28 February 2025 becomes 4 on 1 March
C7Witness ==
    /\ calc.fn = "complete"
    /\ calc.out # <<>>
    /\ calc.last_day = <<2025, 2, 28>>
    /\ calc.today = [y |-> 2025, m |-> 3, d |-> 1]
    /\ calc.streak = 3
    /\ calc.out[1].profile.streak = 4

\* whether profile p has a completed day record for the date of ordinal o
CompletedOn(p, o) ==
    \E dk \in Done(p) : IsoParses(dk) /\ Ordinal(FromIso(dk)) = o

\* the number of consecutive calendar days, ending at last_day, with a
\* completed day record
ConsecutiveCompleted(p) ==
    IF p.last_day = NoneDate THEN 0
    ELSE LET last == Ordinal(FromIso(p.last_day))
         IN  CHOOSE n \in 0..Cardinality(Done(p)) :
                 /\ \A i \in 0..(n - 1) : CompletedOn(p, last - i)
                 /\ ~CompletedOn(p, last - n)

\* C8: in every state the streak is the number of consecutive calendar days,
\* ending at last_day, with a completed day record, and it is 0 exactly when
\* no day was ever completed (the clock never goes backwards).
C8StreakCountsDays ==
    \A k \in Held :
        /\ files[k][1].streak = ConsecutiveCompleted(files[k][1])
        /\ (files[k][1].streak = 0) <=> (Done(files[k][1]) = {})

\* the rank of a tier in Bronze < Silver < Gold < Legend
Tier(b) == CHOOSE i \in 1..4 : BADGE_LADDER[i] = b

\* C9: no run lowers the tier the profile records for a category.
C9BadgeTierNeverLower ==
    [][\A k \in Held : \A cat \in DOMAIN files[k][1].badges :
           /\ files'[k] # <<>>
           /\ cat \in DOMAIN files'[k][1].badges
           /\ Tier(files'[k][1].badges[cat])
                  >= Tier(files[k][1].badges[cat])]_vars

\* the table of minimums by age and gender, gender matched against "girl"
\* whatever its capitalisation
MinTable(a, g) ==
    LET girl == g \in {"girl", "Girl", "GIRL"}
    IN  IF a <= 3 THEN 1000
        ELSE IF a <= 8 THEN 1200
        ELSE IF a <= 13 THEN (IF girl THEN 1400 ELSE 1600)
        ELSE IF a <= 18 THEN (IF girl THEN 1800 ELSE 2400)
        ELSE 2000

\* ceil(x2 / 2 / 250) for a doubled amount x2: the least count of 250 ml
\* glasses that holds x2 / 2 ml
Glasses(x2) == CHOOSE n \in 0..x2 : n * 500 >= x2 /\ (n - 1) * 500 < x2

\* C10: for a weight w > 0 the glass count is
\* ceil(max(35 * w, minTable(a, g)) / 250), and it does not fall when the
\* weight grows (here by 0.5 kg) with age and gender fixed.
C10WaterTarget ==
    (calc.fn = "water" /\ calc.out # <<>> /\ calc.weight > 0) =>
        /\ calc.out[1].glasses =
               Glasses(Max(35 * calc.weight,
                           2 * MinTable(calc.age, calc.gender)))
        /\ calc.out[1].glasses <= calc.heavier[1].glasses

\* C10 witness: a girl of 10 entered as "GIRL", 45 kg: 1575 ml, 7 glasses
C10Witness ==
    /\ calc.fn = "water"
    /\ calc.out # <<>>
    /\ calc.age = 10
    /\ calc.gender = "GIRL"
    /\ calc.weight = 90
    /\ calc.out[1].glasses = 7
    /\ calc.heavier[1].glasses = 7

\* C11: the water target never ends in an error; a weight that is
\* non-positive or no number, an age that is missing or below 1 and a gender
\* that is empty or missing are each replaced by 25 kg, 8 years and "boy".
C11WaterDefaults ==
    (calc.fn = "water_any" /\ calc.out # <<>>) =>
        LET age == IF calc.age.t = "none" \/ calc.age.v < 1 THEN 8
                   ELSE calc.age.v
            gender == IF calc.gender.t = "none" \/ calc.gender.v = ""
                      THEN "boy" ELSE calc.gender.v
            weight2 == IF calc.weight.t # "num" \/ calc.weight.v <= 0 THEN 50
                       ELSE calc.weight.v
            target2 == Max(35 * weight2, 2 * MinTable(age, gender))
        IN  /\ calc.out[1].raised = ""
            /\ calc.out[1].res.glasses = Glasses(target2)
            /\ 2 * calc.out[1].res.ml \in {target2 - 1, target2, target2 + 1}

\* the glasses stored for child n on the clock's date (0 without a record)
StoredGlasses(n) ==
    LET p == load_profile(files, n, clock)
    IN  IF IsoFormat(clock) \in DOMAIN p.days
        THEN p.days[IsoFormat(clock)].water.glasses ELSE 0

\* C12: a run that writes a profile leaves today's record with the target
\* glasses and ml computed from the age, gender and weight the profile now
\* holds, whether the record is new or was stored with other targets; a run
\* that only changes age, gender or weight leaves the glasses drunk as stored.
C12TargetsRecomputed ==
    [][\A k \in FileKeys : files'[k] # files[k] =>
          LET p == files'[k][1]
              key == IsoFormat(clock)
              rec == calculate_water_intake(p.age, p.gender, p.weight)
          IN  /\ key \in DOMAIN p.days
              /\ p.days[key].water.target_glasses = rec.glasses
              /\ p.days[key].water.target_ml = rec.ml
              /\ \A n \in ChildNames, b \in BasicsChoices :
                     (UserFile(n) = k /\ EditsBasics(n, b)) =>
                         p.days[key].water.glasses = StoredGlasses(n)]_vars

\* C12 witness: the record stored with a target of 5 glasses (1200 ml) holds,
\* after the age was set to 3, a target of 4 glasses (1000 ml) and the same
\* 4 glasses drunk
C12Witness ==
    \E k \in Held :
        /\ files[k][1].age = 3
        /\ IsoFormat(StartDate) \in DOMAIN files[k][1].days
        /\ files[k][1].days[IsoFormat(StartDate)].water =
               [glasses |-> 4, target_glasses |-> 4, target_ml |-> 1000]
        /\ ~files[k][1].days[IsoFormat(StartDate)].completed

\* whether a typed text is empty or only whitespace
IsBlank(text) == \A i \in DOMAIN text : text[i] = " "

\* C13: "Add fruit" with a non-empty item appends exactly one item to
\* today's fruit list (earlier items untouched, duplicates kept) and adds
\* exactly 8 xp; "Other" with blank text changes neither the list nor xp;
\* two items added to an empty day leave 16 xp more and the fruit tier Silver.
C13AddFruit ==
    /\ [][(calc.fn = "fruit" /\ calc'.fn = "fruit") =>
             LET old == calc.s.day.fruit.items
                 new == calc'.s.day.fruit.items
                 choice == calc'.last[1]
                 typed == calc'.last[2]
             IN  IF choice = OTHER_CHOICE /\ IsBlank(typed)
                 THEN /\ new = old
                      /\ calc'.s.profile.xp = calc.s.profile.xp
                 ELSE /\ Len(new) = Len(old) + 1
                      /\ SubSeq(new, 1, Len(old)) = old
                      /\ choice # OTHER_CHOICE => new[Len(new)] = choice
                      /\ calc'.s.profile.xp = calc.s.profile.xp + 8]_vars
    /\ []((/\ calc.fn = "fruit"
           /\ calc.start = <<>>
           /\ Len(calc.s.day.fruit.items) = 2) =>
              /\ calc.s.profile.xp = 16
              /\ calc.s.profile.badges["fruit"] = "Silver")

\* C13 witness: the same fruit added twice to an empty day: two items, 16 xp,
\* Silver
C13Witness ==
    /\ calc.fn = "fruit"
    /\ calc.start = <<>>
    /\ calc.s.day.fruit.items = <<APPLE, APPLE>>
    /\ calc.s.profile.xp = 16
    /\ calc.s.profile.badges["fruit"] = "Silver"

\* C14: with g glasses drunk of a target t the hydration tier is Legend iff
\* g/t >= 1, Gold iff 0.8 <= g/t < 1, Silver iff 0.5 <= g/t < 0.8, Bronze iff
\* 0.25 <= g/t < 0.5, and none iff g/t < 0.25.
C14HydrationTier ==
    (calc.fn = "hydration" /\ calc.out # <<>>) =>
        LET g == calc.glasses
            t == calc.target
            tier == calc.out[1]
        IN  /\ tier = "Legend" <=> g >= t
            /\ tier = "Gold" <=> (5 * g >= 4 * t /\ g < t)
            /\ tier = "Silver" <=> (2 * g >= t /\ 5 * g < 4 * t)
            /\ tier = "Bronze" <=> (4 * g >= t /\ 2 * g < t)
            /\ tier = "" <=> 4 * g < t

\* C14 witness: exactly 4 of 5 glasses is Gold
C14Witness ==
    /\ calc.fn = "hydration"
    /\ calc.glasses = 4
    /\ calc.target = 5
    /\ calc.out = <<"Gold">>

\* the school_work flag stored for child n on the clock's date
StoredSchoolWork(n) == WidgetDefaults(files, n, clock).school_done

\* C15: a run in which the school-work checkbox is left or set to done adds
\* 10 xp if the stored flag was false and the box is now checked, and no xp
\* otherwise (flag already true, or box unchecked); the flag becomes the box.
C15SchoolAwardOnce ==
    [][\A n \in ChildNames, done \in BOOLEAN :
          TogglesSchoolWork(n, done) =>
              /\ files'[UserFile(n)][1].xp =
                     StoredXp(n)
                     + (IF done /\ ~StoredSchoolWork(n) THEN 10 ELSE 0)
              /\ files'[UserFile(n)][1].days[IsoFormat(clock)].school_work
                     = done]_vars

\* C15 witness: a new profile whose only xp is the 10 points of ticking
\* school work
C15Witness ==
    \E k \in Held :
        /\ files[k][1].xp = 10
        /\ DOMAIN files[k][1].days = {IsoFormat(StartDate)}
        /\ files[k][1].days[IsoFormat(StartDate)].school_work

\* C16: a run on a stored profile from which a key is missing (xp, badges,
\* streak, last_day, or a key of today's record) ends in no fault, and the
\* profile it saves is the one the run saves when the key holds its default
\* value (the keys the saved profile holds have the same values)
C16MissingFieldIsDefault ==
    (calc.fn = "lacking" /\ calc.out # <<>>) =>
        LET o == calc.out[1]
            p == Defaulted(StoredProfile(calc.glasses), calc.field)
            expected == Script(SeedFiles(p), LackingWidgets(calc))[UserFile(ALI)][1]
        IN  /\ o.raised = ""
            /\ \A x \in DOMAIN o.profile : o.profile[x] = expected[x]

C18BlankNameDoesNothing ==
    (calc.fn = "blank" /\ calc.out # <<>>) =>
        calc.out[1] = BlankStorages[calc.storage]

\* a run with two blanks as the name has ended on a storage that holds
\* profiles, the one of the file an empty name maps to included
C18Witness ==
    /\ calc.fn = "blank"
    /\ calc.name = <<" ", " ">>
    /\ calc.out # <<>>
    /\ calc.out[1][UserFile(<<>>)] # <<>>
    /\ calc.out[1][UserFile(ALI)] # <<>>

\* the day records stored in file k of storage fs
StoredDays(fs, k) == IF fs[k] = <<>> THEN <<>> ELSE fs[k][1].days

\* C19: a step creates, removes or changes no day record of a date other
\* than the date at which its run started: every record stored under another
\* date is there before and after the step, with the same content
C19OnlyTodaysRecord ==
    [][\A k \in FileKeys :
          LET old == StoredDays(files, k)
              new == StoredDays(files', k)
          IN  \A dk \in (DOMAIN old \cup DOMAIN new) \ {IsoFormat(clock)} :
                  /\ dk \in DOMAIN old
                  /\ dk \in DOMAIN new
                  /\ new[dk] = old[dk]]_vars

\* on the day after StartDate a glass has been logged in that day's record,
\* beside the record StartDate was left with
C19Witness ==
    /\ clock = NextDay(StartDate)
    /\ \E k \in Held :
           /\ IsoFormat(StartDate) \in DOMAIN files[k][1].days
           /\ files[k][1].days[IsoFormat(StartDate)] = SeedDay(4, FALSE)
           /\ IsoFormat(clock) \in DOMAIN files[k][1].days
           /\ files[k][1].days[IsoFormat(clock)].water.glasses >= 1

\* badge set b holds tier t for that category
HoldsTier(b, category, t) == category \in DOMAIN b /\ b[category] = t

\* C20: after a run that saves a profile, the profile's badge set holds a
\* tier for every category with activity in today's record: outdoor and
\* indoor by item count, exam by minutes (1-19 Bronze, 20-39 Silver, 40-59
\* Gold, 60 and more Legend), school Bronze once school work is done
C20BadgeForEveryCategory ==
    [][\A k \in FileKeys :
          (files'[k] # <<>> /\ files'[k] # files[k]) =>
              LET p == files'[k][1]
                  d == p.days[IsoFormat(clock)]
              IN  /\ d.outdoor # {} =>
                         HoldsTier(p.badges, "outdoor",
                                   LadderAt(Cardinality(d.outdoor)))
                  /\ d.indoor # {} =>
                         HoldsTier(p.badges, "indoor",
                                   LadderAt(Cardinality(d.indoor)))
                  /\ d.exam_prep_min >= 1 =>
                         HoldsTier(p.badges, "exam",
                                   BADGE_LADDER[Min(3, d.exam_prep_min \div 20) + 1])
                  /\ d.school_work => HoldsTier(p.badges, "school", "Bronze")]_vars

\* C21: a press of "I drank 1 glass" leaves today's record as it was stored
\* but for one more glass (a day without a record gets a new record holding
\* one glass), adds exactly 5 xp and leaves streak and last completed day as
\* they were, whether or not the target is reached or the day is completed;
\* and no step lowers the glasses of any stored day record
C21DrinkGlass ==
    [][/\ \A n \in ChildNames :
              DrinksGlass(n) =>
                  LET key == IsoFormat(clock)
                      p == load_profile(files, n, clock)
                      q == files'[UserFile(n)][1]
                      d == IF key \in DOMAIN p.days THEN p.days[key]
                           ELSE NewDay(calculate_water_intake(q.age, q.gender,
                                                              q.weight), 60)
                  IN  /\ q.days[key] =
                             [d EXCEPT !.water.glasses = d.water.glasses + 1]
                      /\ q.xp = p.xp + 5
                      /\ q.streak = p.streak
                      /\ q.last_day = p.last_day
       /\ \A k \in Held :
              \A dk \in DOMAIN files[k][1].days :
                  files'[k][1].days[dk].water.glasses
                      >= files[k][1].days[dk].water.glasses]_vars

\* a day marked complete on which a glass beyond the target of 4 is logged:
\* the seed day's xp, the completion bonus and one glass
C21Witness ==
    \E k \in Held :
        LET p == files[k][1]
            key == IsoFormat(StartDate)
        IN  /\ key \in DOMAIN p.days
            /\ p.days[key].completed
            /\ p.days[key].water.target_glasses = 4
            /\ p.days[key].water.glasses = 5
            /\ p.xp >= SeedDayXp(4, FALSE) + xp_for("day_complete")
                       + xp_for("water_glass")

\* C22: the profile a session loads by a child's name is the profile the
\* previous session under that name saved at its end: the same xp, badges,
\* streak, last completed day and day records, and every other field
C22SaveLoadRoundTrip ==
    (calc.fn = "roundtrip" /\ calc.out # <<>>) =>
        LET saved == SavedState(calc)
            loaded == calc.out[1]
        IN  /\ loaded = saved
            /\ loaded.xp = saved.xp
            /\ loaded.badges = saved.badges
            /\ loaded.streak = saved.streak
            /\ loaded.last_day = saved.last_day
            /\ loaded.days = saved.days

\* a new child typed the name in lower case, logged a glass, and the next
\* session loaded the profile: no completed day yet, one record, 5 xp
C22Witness ==
    /\ calc.fn = "roundtrip"
    /\ calc.name = <<"a", "l", "i">>
    /\ calc.storage = 1
    /\ calc.out # <<>>
    /\ calc.out[1].last_day = NoneDate
    /\ calc.out[1].xp = xp_for("water_glass")
    /\ DOMAIN calc.out[1].days = {IsoFormat(StartDate)}

=============================================================================
